---- MODULE Spec2Model ----
(***************************************************************************)
(* The StoryDetail end-to-end suite (story-detail spec of taiga-e2e) run    *)
(* against the story detail / kanban application.                          *)
(*                                                                         *)
(* The suite is modelled as the test runner executes it: a hook or test    *)
(* body runs synchronously and enqueues commands, the runner then executes *)
(* the queue one command at a time, a request command settles the promise  *)
(* its helper returned and runs the .then / .catch callback, and the       *)
(* runnable ends when its queue is empty.  The application the commands    *)
(* drive is held in the record app.                                        *)
(***************************************************************************)
EXTENDS Integers, Sequences, FiniteSets, TLC

\* ------------------------------------------------------------------ bounds
TitleChars == 2
MaxTitleLen == 2

\* ------------------------------------------------------------- text values
Null == "unassigned"
NoTitle == <<>>
\* the fixed title of the fixture story, 'test'
TestTitle == <<0>>
\* the values randText() can return
RandText == UNION {[1..n -> 1..TitleChars] : n \in 1..MaxTitleLen}

\* 'contain.text': sub occurs in s as a contiguous substring
Contains(s, sub) ==
  \E i \in 0..(Len(s) - Len(sub)) : SubSeq(s, i + 1, i + Len(sub)) = sub

\* ------------------------------------------------------------ application
\* the workflow statuses of a new project, in the order of the status select
Statuses == <<"new", "ready", "in-progress", "done">>
StatusNames == {Statuses[i] : i \in 1..Len(Statuses)}
\* the reference of the one story of the suite
StoryRef == "story"
ProjectId == "project"

InitApp ==
  [auth |-> FALSE, workspace |-> FALSE, project |-> FALSE,
   stories |-> {}, columns |-> [s \in StatusNames |-> {}],
   title |-> NoTitle, version |-> 0,
   ui |-> "blank", detailTitle |-> NoTitle, cardTitle |-> NoTitle,
   baseVersion |-> 0, textarea |-> NoTitle, clipboard |-> NoTitle]

\* the story cards of one status column
Cards(a, status) == a.columns[status]
AllCards(a) == UNION {a.columns[s] : s \in StatusNames}
StatusOf(a, ref) == CHOOSE s \in StatusNames : ref \in a.columns[s]

\* HTTP collaborators
ApiCreateWorkspace(a) == [a EXCEPT !.workspace = TRUE]
ApiCreateProject(a) == [a EXCEPT !.project = TRUE]
ApiCreateStory(a, title, status) ==
  [a EXCEPT !.stories = @ \cup {StoryRef},
            !.columns[status] = @ \cup {StoryRef},
            !.title = title, !.version = 1]
ApiUpdateStory(a, title) ==
  [a EXCEPT !.title = title, !.version = @ + 1]

\* the selectors that can be acted on in each state of the page
Available(a, sel) ==
  CASE sel = "tg-kanban-story" -> a.ui = "kanban" /\ a.stories # {}
    [] sel = "story-status" -> a.ui = "detail"
    [] sel = "story-status-option" -> a.ui = "statusOpen"
    [] sel = "edit-title" -> a.ui = "detail"
    [] sel = "edit-title-textarea" -> a.ui = "editing"
    [] sel = "edit-title-save" -> a.ui = "editing"
    [] sel = "edit-title-cancel" -> a.ui = "editing"
    [] sel = "confirm-edit" -> a.ui = "confirmDiscard"
    [] sel = "see-new-version" -> a.ui = "conflict"
    [] sel = "copy-title" -> a.ui = "conflict"
    [] sel = "dismiss" -> a.ui = "newVersion"
    [] sel = "delete-story" -> a.ui = "detail"
    [] sel = "confirm-delete-story" -> a.ui = "confirmDelete"
    [] OTHER -> FALSE

\* saving the title editor: committed when the editor was opened on the
\* current version of the story, a conflict prompt otherwise
SaveTitle(a) ==
  IF a.baseVersion = a.version
  THEN [a EXCEPT !.title = a.textarea, !.version = @ + 1,
                 !.baseVersion = a.version + 1,
                 !.detailTitle = a.textarea, !.cardTitle = a.textarea,
                 !.ui = "detail"]
  ELSE [a EXCEPT !.ui = "conflict"]

\* showing the version of the story the server holds
SeeNewVersion(a) ==
  [a EXCEPT !.detailTitle = a.title, !.cardTitle = a.title,
            !.baseVersion = a.version, !.ui = "newVersion"]

CopyTitle(a) == [a EXCEPT !.clipboard = a.title]

Dismiss(a) == [a EXCEPT !.textarea = NoTitle, !.ui = "detail"]

\* cancelling the editor asks for a confirmation first
CancelEdit(a) == [a EXCEPT !.ui = "confirmDiscard"]

ConfirmEdit(a) == [a EXCEPT !.textarea = NoTitle, !.ui = "detail"]

ConfirmDeleteStory(a) ==
  [a EXCEPT !.stories = {}, !.columns = [s \in StatusNames |-> {}],
            !.ui = "kanban"]

\* a click on an available selector
ClickEffect(a, sel) ==
  CASE sel = "tg-kanban-story" ->
         [a EXCEPT !.ui = "detail", !.detailTitle = a.title,
                   !.cardTitle = a.title, !.baseVersion = a.version]
    [] sel = "edit-title" ->
         [a EXCEPT !.ui = "editing", !.textarea = a.detailTitle]
    [] sel = "edit-title-save" -> SaveTitle(a)
    [] sel = "edit-title-cancel" -> CancelEdit(a)
    [] sel = "confirm-edit" -> ConfirmEdit(a)
    [] sel = "see-new-version" -> SeeNewVersion(a)
    [] sel = "copy-title" -> CopyTitle(a)
    [] sel = "dismiss" -> Dismiss(a)
    [] sel = "delete-story" -> [a EXCEPT !.ui = "confirmDelete"]
    [] sel = "confirm-delete-story" -> ConfirmDeleteStory(a)
    [] OTHER -> a

\* SetStatus adding the story to the new column without removing it
SetStatus_copy(a, i) ==
  [a EXCEPT !.columns[Statuses[i + 1]] = @ \cup {StoryRef},
            !.version = @ + 1, !.baseVersion = a.version + 1,
            !.ui = "detail"]

\* choosing option i (0-based) of the status select moves the story
SetStatus(a, i) ==
  LET to == Statuses[i + 1]
      from == StatusOf(a, StoryRef)
  IN [a EXCEPT !.columns = [s \in StatusNames |->
                              IF s = to THEN a.columns[s] \cup {StoryRef}
                              ELSE IF s = from THEN a.columns[s] \ {StoryRef}
                              ELSE a.columns[s]],
               !.version = @ + 1, !.baseVersion = a.version + 1,
               !.ui = "detail"]

\* the text a 'contain.text' assertion reads
TextOf(a, sel) ==
  CASE sel = "story-detail-title" -> a.detailTitle
    [] sel = "tg-kanban-story" -> a.cardTitle
    [] OTHER -> NoTitle

\* ------------------------------------------------------- the spec file
\* a queued command
Cmd(cmd, sel, title, n, then, catch) ==
  [cmd |-> cmd, sel |-> sel, title |-> title, n |-> n, status |-> "",
   then |-> then, catch |-> catch]
Login == Cmd("login", "", NoTitle, 0, "", "")
Visit == Cmd("visit", "/", NoTitle, 0, "", "")
Click(sel) == Cmd("click", sel, NoTitle, 0, "", "")
Clear(sel) == Cmd("clear", sel, NoTitle, 0, "", "")
Type(sel, title) == Cmd("type", sel, title, 0, "", "")
SetValue(sel, i) == Cmd("setValue", sel, NoTitle, i, "", "")
ShouldHaveLength(column, n) == Cmd("shouldHaveLength", column, NoTitle, n, "", "")
ShouldContainText(sel, title) == Cmd("shouldContainText", sel, title, 0, "", "")
ShouldNotContainText(sel, title) == Cmd("shouldNotContainText", sel, title, 0, "", "")
Request(api, title, status, then, catch) ==
  [Cmd("request", api, title, 0, then, catch) EXCEPT !.status = status]

\* the names and the order of the tests of the suite
Tests ==
  <<"update status", "edit title", "edit title cancel",
    "edit title conflict dismiss", "edit title conflict copy", "delete story">>
NumTests == Len(Tests)
TestIndex(name) == CHOOSE i \in 1..NumTests : Tests[i] = name

\* before(): what the hook body enqueues
BeforeBody ==
  <<Login, Request("createWorkspace", NoTitle, "", "onWorkspace", "console.error")>>

\* ThenCommands with the copy callback not clicking see-new-version
ThenCommands_copyWithoutSeeNewVersion(then, nt, ct) ==
  CASE then = "onWorkspace" ->
         <<Request("createFullProjectInWS", NoTitle, "", "onProject", "")>>
    [] then = "onProject" ->
         <<Request("createStory", TestTitle, "new", "onStory", "")>>
    [] then = "onUpdateDismiss" ->
         <<Click("edit-title-save"), Click("see-new-version"), Click("dismiss"),
           ShouldContainText("story-detail-title", ct)>>
    [] then = "onUpdateCopy" ->
         <<Click("edit-title-save"), Click("copy-title"),
           ShouldContainText("story-detail-title", ct)>>
    [] OTHER -> <<>>

\* the .then callbacks of the hook and of the conflict tests: the commands
\* each enqueues (nt, ct: the newTitle and conflictTitle of the test)
ThenCommands(then, nt, ct) ==
  CASE then = "onWorkspace" ->
         <<Request("createFullProjectInWS", NoTitle, "", "onProject", "")>>
    [] then = "onProject" ->
         <<Request("createStory", TestTitle, "new", "onStory", "")>>
    [] then = "onUpdateDismiss" ->
         <<Click("edit-title-save"), Click("see-new-version"), Click("dismiss"),
           ShouldContainText("story-detail-title", ct)>>
    [] then = "onUpdateCopy" ->
         <<Click("edit-title-save"), Click("copy-title"), Click("see-new-version"),
           ShouldContainText("story-detail-title", ct)>>
    [] OTHER -> <<>>

\* ThenAssigns with the story callback not assigning story
ThenAssigns_storyNotAssigned(then) ==
  CASE then = "onProject" -> {"project"}
    [] OTHER -> {}

\* the suite variables a .then callback assigns from the response body
ThenAssigns(then) ==
  CASE then = "onProject" -> {"project"}
    [] then = "onStory" -> {"story"}
    [] OTHER -> {}

\* CatchLog with an empty .catch callback in the conflict tests
CatchLog_silentUpdateCatch(catch) ==
  CASE catch = "console.error" -> {"rejection"}
    [] OTHER -> {}

\* what a .catch callback writes to the console
CatchLog(catch) ==
  CASE catch = "console.error" -> {"rejection"}
    [] catch = "updateStoryRequest" -> {"updateStoryRequest error"}
    [] OTHER -> {}

\* beforeEach(): what the hook body enqueues
BeforeEachBody ==
  <<Login, Visit, Cmd("navigateToProjectInWS", "", NoTitle, 0, "", ""),
    Cmd("navigateToKanban", "", NoTitle, 0, "", ""), Click("tg-kanban-story")>>

\* UpdateStatusBody choosing option 0, and option 2
UpdateStatusBody_option0 ==
  <<Cmd("toggleDropdown", "story-status", NoTitle, 0, "", ""),
    SetValue("story-status", 0),
    ShouldHaveLength("ready", 1), ShouldHaveLength("new", 0)>>

UpdateStatusBody_option2 ==
  <<Cmd("toggleDropdown", "story-status", NoTitle, 0, "", ""),
    SetValue("story-status", 2),
    ShouldHaveLength("ready", 1), ShouldHaveLength("new", 0)>>

UpdateStatusBody ==
  <<Cmd("toggleDropdown", "story-status", NoTitle, 0, "", ""),
    SetValue("story-status", 1),
    ShouldHaveLength("ready", 1), ShouldHaveLength("new", 0)>>

\* EditTitleBody typing without clearing the textarea
EditTitleBody_noClear(nt) ==
  <<Click("edit-title"), Type("edit-title-textarea", nt),
    Click("edit-title-save"),
    ShouldContainText("story-detail-title", nt),
    ShouldContainText("tg-kanban-story", nt)>>

EditTitleBody(nt) ==
  <<Click("edit-title"), Clear("edit-title-textarea"), Type("edit-title-textarea", nt),
    Click("edit-title-save"),
    ShouldContainText("story-detail-title", nt),
    ShouldContainText("tg-kanban-story", nt)>>

\* EditTitleCancelBody clicking edit-title-save for edit-title-cancel
EditTitleCancelBody_save(nt) ==
  <<Click("edit-title"), Clear("edit-title-textarea"), Type("edit-title-textarea", nt),
    Click("edit-title-save"), Click("confirm-edit"),
    ShouldNotContainText("story-detail-title", nt)>>

EditTitleCancelBody(nt) ==
  <<Click("edit-title"), Clear("edit-title-textarea"), Type("edit-title-textarea", nt),
    Click("edit-title-cancel"), Click("confirm-edit"),
    ShouldNotContainText("story-detail-title", nt)>>

\* EditTitleConflictDismissBody sending newTitle out of band
EditTitleConflictDismissBody_sendsNewTitle(nt, ct) ==
  <<Click("edit-title"), Clear("edit-title-textarea"), Type("edit-title-textarea", nt),
    Request("updateStory", nt, "", "onUpdateDismiss", "updateStoryRequest")>>

EditTitleConflictDismissBody(nt, ct) ==
  <<Click("edit-title"), Clear("edit-title-textarea"), Type("edit-title-textarea", nt),
    Request("updateStory", ct, "", "onUpdateDismiss", "updateStoryRequest")>>

\* EditTitleConflictCopyBody clicking edit-title-save before the request
EditTitleConflictCopyBody_saveFirst(nt, ct) ==
  <<Click("edit-title"), Clear("edit-title-textarea"), Type("edit-title-textarea", nt),
    Click("edit-title-save"),
    Request("updateStory", ct, "", "onUpdateCopy", "updateStoryRequest")>>

EditTitleConflictCopyBody(nt, ct) ==
  <<Click("edit-title"), Clear("edit-title-textarea"), Type("edit-title-textarea", nt),
    Request("updateStory", ct, "", "onUpdateCopy", "updateStoryRequest")>>

DeleteStoryBody ==
  <<ShouldHaveLength("ready", 1), Click("delete-story"), Click("confirm-delete-story"),
    ShouldHaveLength("ready", 0)>>

\* the effect of a request on the server
ApiEffect(a, c) ==
  CASE c.sel = "createWorkspace" -> ApiCreateWorkspace(a)
    [] c.sel = "createFullProjectInWS" -> ApiCreateProject(a)
    [] c.sel = "createStory" -> ApiCreateStory(a, c.title, c.status)
    [] c.sel = "updateStory" -> ApiUpdateStory(a, c.title)
    [] OTHER -> a

\* ---------------------------------------------------------------- state
VARIABLES
  app,            \* the application: server records and the page
  cur,            \* 0 in before(), else the index of the current test
  phase,          \* "before", "beforeEach", "test" or "done"
  pc,             \* "body": the runnable's body has not run; "run": it has
  queue,          \* the commands enqueued and not yet executed
  result,         \* the outcome of each test
  project, story, \* the suite variables of describe()
  newTitle, conflictTitle,  \* the constants of the current test
  log,            \* what console.error received, with the runnable
  trace,          \* the commands the current runnable has executed
  asserted,       \* the tests in which an assertion has passed
  pre             \* the titles when the current test started

vars ==
  <<app, cur, phase, pc, queue, result, project, story, newTitle,
    conflictTitle, log, trace, asserted, pre>>

Init ==
  /\ app = InitApp
  /\ cur = 0
  /\ phase = "before"
  /\ pc = "body"
  /\ queue = <<>>
  /\ result = [n \in 1..NumTests |-> "pending"]
  /\ project = Null
  /\ story = Null
  /\ newTitle = NoTitle
  /\ conflictTitle = NoTitle
  /\ log = {}
  /\ trace = <<>>
  /\ asserted = {}
  /\ pre = [title |-> NoTitle, detailTitle |-> NoTitle]

\* ---------------------------------------------------------------- runner
\* the runnable after test n
NextRunnable(n) ==
  IF n < NumTests
  THEN cur' = n + 1 /\ phase' = "beforeEach" /\ pc' = "body"
  ELSE cur' = n /\ phase' = "done" /\ pc' = "end"

\* the current runnable fails: a failed test lets the suite go on, a failed
\* hook skips the tests that have not run
FailRunnable ==
  /\ queue' = <<>>
  /\ trace' = <<>>
  /\ IF phase = "test"
     THEN /\ result' = [result EXCEPT ![cur] = "failed"]
          /\ NextRunnable(cur)
     ELSE /\ result' = [n \in 1..NumTests |->
                         IF n < cur THEN result[n]
                         ELSE IF n = cur THEN "failed" ELSE "skipped"]
          /\ cur' = cur /\ phase' = "done" /\ pc' = "end"
  /\ UNCHANGED <<app, project, story, newTitle, conflictTitle, log, asserted, pre>>

\* the head command c has run: with ok it leaves app2 and the runnable goes
\* on, otherwise the runnable fails
Executed(c, ok, app2) ==
  IF ok
  THEN /\ app' = app2
       /\ queue' = Tail(queue)
       /\ trace' = Append(trace, <<c.cmd, c.sel, "ok">>)
       /\ asserted' = IF phase = "test" /\ c.cmd \in {"shouldHaveLength", "shouldContainText", "shouldNotContainText"}
                      THEN asserted \cup {cur} ELSE asserted
       /\ UNCHANGED <<cur, phase, pc, result, project, story, newTitle,
                      conflictTitle, log, pre>>
  ELSE FailRunnable

Running(kind) == pc = "run" /\ queue # <<>> /\ Head(queue).cmd = kind

\* a test body has run and enqueued q
StartTest(q, nt, ct) ==
  /\ queue' = q
  /\ pc' = "run"
  /\ newTitle' = nt
  /\ conflictTitle' = ct
  /\ trace' = <<>>
  /\ pre' = [title |-> app.title, detailTitle |-> app.detailTitle]
  /\ UNCHANGED <<app, cur, phase, result, project, story, log, asserted>>

AtBody(name) == phase = "test" /\ pc = "body" /\ cur = TestIndex(name)

\* ----------------------------------------------------------------- hooks
Before ==
  /\ phase = "before" /\ pc = "body"
  /\ queue' = BeforeBody
  /\ pc' = "run"
  /\ UNCHANGED <<app, cur, phase, result, project, story, newTitle,
                 conflictTitle, log, trace, asserted, pre>>

BeforeEach ==
  /\ phase = "beforeEach" /\ pc = "body"
  /\ queue' = BeforeEachBody
  /\ pc' = "run"
  /\ newTitle' = NoTitle
  /\ conflictTitle' = NoTitle
  /\ trace' = <<>>
  /\ UNCHANGED <<app, cur, phase, result, project, story, log, asserted, pre>>

\* ----------------------------------------------------------------- tests
UpdateStatus ==
  /\ AtBody("update status")
  /\ StartTest(UpdateStatusBody, NoTitle, NoTitle)

EditTitle ==
  /\ AtBody("edit title")
  /\ \E nt \in RandText : StartTest(EditTitleBody(nt), nt, NoTitle)

EditTitleCancel ==
  /\ AtBody("edit title cancel")
  /\ \E nt \in RandText : StartTest(EditTitleCancelBody(nt), nt, NoTitle)

\* project.id and story.ref are read while the body runs: reading a
\* property of an unassigned variable throws and fails the test
EditTitleConflictDismiss ==
  /\ AtBody("edit title conflict dismiss")
  /\ IF project = Null \/ story = Null
     THEN FailRunnable
     ELSE \E nt, ct \in RandText :
            StartTest(EditTitleConflictDismissBody(nt, ct), nt, ct)

EditTitleConflictCopy ==
  /\ AtBody("edit title conflict copy")
  /\ IF project = Null \/ story = Null
     THEN FailRunnable
     ELSE \E nt, ct \in RandText :
            StartTest(EditTitleConflictCopyBody(nt, ct), nt, ct)

DeleteStory ==
  /\ AtBody("delete story")
  /\ StartTest(DeleteStoryBody, NoTitle, NoTitle)

\* -------------------------------------------------------------- commands
DoLogin ==
  /\ Running("login")
  /\ Executed(Head(queue), TRUE, [app EXCEPT !.auth = TRUE])

\* loading the application root: the page starts afresh
DoVisit ==
  /\ Running("visit")
  /\ Executed(Head(queue), app.auth,
              [app EXCEPT !.ui = "home", !.detailTitle = NoTitle,
                          !.cardTitle = NoTitle, !.textarea = NoTitle,
                          !.baseVersion = 0])

DoNavigateToProjectInWS ==
  /\ Running("navigateToProjectInWS")
  /\ Executed(Head(queue), app.ui = "home" /\ app.workspace /\ app.project,
              [app EXCEPT !.ui = "project"])

DoNavigateToKanban ==
  /\ Running("navigateToKanban")
  /\ Executed(Head(queue), app.ui = "project",
              [app EXCEPT !.ui = "kanban",
                          !.cardTitle = IF app.stories = {} THEN NoTitle ELSE app.title])

DoClick ==
  /\ Running("click")
  /\ LET c == Head(queue)
     IN Executed(c, Available(app, c.sel), ClickEffect(app, c.sel))

DoClear ==
  /\ Running("clear")
  /\ LET c == Head(queue)
     IN Executed(c, Available(app, c.sel), [app EXCEPT !.textarea = NoTitle])

DoType ==
  /\ Running("type")
  /\ LET c == Head(queue)
     IN Executed(c, Available(app, c.sel),
                 [app EXCEPT !.textarea = app.textarea \o c.title])

DoToggleDropdown ==
  /\ Running("toggleDropdown")
  /\ LET c == Head(queue)
     IN Executed(c, Available(app, c.sel) \/ app.ui = "statusOpen",
                 [app EXCEPT !.ui = IF app.ui = "statusOpen" THEN "detail"
                                    ELSE "statusOpen"])

DoSetValue ==
  /\ Running("setValue")
  /\ LET c == Head(queue)
     IN Executed(c, Available(app, "story-status-option") /\ c.n < Len(Statuses),
                 SetStatus(app, c.n))

DoShouldHaveLength ==
  /\ Running("shouldHaveLength")
  /\ LET c == Head(queue)
     IN Executed(c, Cardinality(Cards(app, c.sel)) = c.n, app)

DoShouldContainText ==
  /\ Running("shouldContainText")
  /\ LET c == Head(queue)
     IN Executed(c, Contains(TextOf(app, c.sel), c.title), app)

DoShouldNotContainText ==
  /\ Running("shouldNotContainText")
  /\ LET c == Head(queue)
     IN Executed(c, ~Contains(TextOf(app, c.sel), c.title), app)

\* a request settles the promise of its helper: fulfilled, the .then
\* callback assigns and enqueues; rejected, the .catch callback logs, and a
\* rejection no callback handles either goes unnoticed or fails the runnable
DoRequest ==
  /\ Running("request")
  /\ LET c == Head(queue)
     IN \/ /\ app' = ApiEffect(app, c)
           /\ project' = IF "project" \in ThenAssigns(c.then) THEN ProjectId ELSE project
           /\ story' = IF "story" \in ThenAssigns(c.then) THEN StoryRef ELSE story
           /\ queue' = Tail(queue) \o ThenCommands(c.then, newTitle, conflictTitle)
           /\ trace' = Append(trace, <<c.cmd, c.sel, "ok">>)
           /\ UNCHANGED <<cur, phase, pc, result, newTitle, conflictTitle, log,
                          asserted, pre>>
        \/ /\ c.catch # ""
           /\ log' = log \cup {<<cur, m>> : m \in CatchLog(c.catch)}
           /\ queue' = Tail(queue)
           /\ trace' = Append(trace, <<c.cmd, c.sel, "rejected">>)
           /\ UNCHANGED <<app, cur, phase, pc, result, project, story, newTitle,
                          conflictTitle, asserted, pre>>
        \/ /\ c.catch = ""
           /\ queue' = Tail(queue)
           /\ trace' = Append(trace, <<c.cmd, c.sel, "rejected">>)
           /\ UNCHANGED <<app, cur, phase, pc, result, project, story, newTitle,
                          conflictTitle, log, asserted, pre>>
        \/ /\ c.catch = ""
           /\ FailRunnable

\* the queue of the runnable is empty: the runnable is over
Finish ==
  /\ pc = "run" /\ queue = <<>>
  /\ trace' = <<>>
  /\ \/ /\ phase = "before"
        /\ cur' = 1 /\ phase' = "beforeEach" /\ pc' = "body"
        /\ UNCHANGED result
     \/ /\ phase = "beforeEach"
        /\ cur' = cur /\ phase' = "test" /\ pc' = "body"
        /\ UNCHANGED result
     \/ /\ phase = "test"
        /\ result' = [result EXCEPT ![cur] = "passed"]
        /\ NextRunnable(cur)
  /\ UNCHANGED <<app, queue, project, story, newTitle, conflictTitle, log,
                 asserted, pre>>

Next ==
  \/ Before \/ BeforeEach
  \/ UpdateStatus \/ EditTitle \/ EditTitleCancel
  \/ EditTitleConflictDismiss \/ EditTitleConflictCopy \/ DeleteStory
  \/ DoLogin \/ DoVisit \/ DoNavigateToProjectInWS \/ DoNavigateToKanban
  \/ DoClick \/ DoClear \/ DoType \/ DoToggleDropdown \/ DoSetValue
  \/ DoShouldHaveLength \/ DoShouldContainText \/ DoShouldNotContainText
  \/ DoRequest \/ Finish

Spec == Init /\ [][Next]_vars

\* ------------------------------------------------------------ properties
InTest(name) == phase = "test" /\ pc = "run" /\ cur = TestIndex(name)
\* the current runnable has executed command cmd on sel
Did(cmd, sel) == \E i \in 1..Len(trace) : trace[i] = <<cmd, sel, "ok">>
ConflictTests ==
  {TestIndex("edit title conflict dismiss"), TestIndex("edit title conflict copy")}

\* the page after the clicks of a command sequence, up to the first click
\* that finds no element
RECURSIVE AfterClicks(_, _)
AfterClicks(a, cmds) ==
  IF cmds = <<>> THEN a
  ELSE LET c == Head(cmds)
       IN IF c.cmd # "click" THEN AfterClicks(a, Tail(cmds))
          ELSE IF Available(a, c.sel)
               THEN AfterClicks(ClickEffect(a, c.sel), Tail(cmds))
               ELSE a

\* C1: in 'update status', once option 1 of the status select has been
\* chosen, the 'ready' column holds exactly one story card and the 'new'
\* column holds none.
C1_StatusChangeIsMove ==
  (InTest("update status") /\ Did("setValue", "story-status"))
    => /\ Cardinality(Cards(app, "ready")) = 1
       /\ Cardinality(Cards(app, "new")) = 0

C1_Witness ==
  /\ InTest("update status") /\ Did("setValue", "story-status")
  /\ Did("shouldHaveLength", "new")
  /\ pre.title = TestTitle

\* C2: as long as the story exists it is in exactly one status column.
C2_ExactlyOneColumn ==
  \A r \in app.stories :
    Cardinality({s \in StatusNames : r \in app.columns[s]}) = 1

C2_Witness ==
  /\ StoryRef \in app.stories
  /\ StoryRef \in app.columns["ready"]
  /\ InTest("update status")

\* C3: in 'edit title conflict dismiss', after the out-of-band update, the
\* save, see-new-version and dismiss, the displayed title is conflictTitle,
\* and it is not newTitle when the two differ.
C3_DismissShowsRemoteTitle ==
  (InTest("edit title conflict dismiss") /\ Did("click", "dismiss"))
    => /\ app.detailTitle = conflictTitle
       /\ (newTitle # conflictTitle => app.detailTitle # newTitle)

C3_Witness ==
  /\ InTest("edit title conflict dismiss") /\ Did("click", "dismiss")
  /\ Did("click", "edit-title-save")
  /\ newTitle # conflictTitle
  /\ app.detailTitle = conflictTitle

\* C4: in 'edit title conflict copy', after copy-title and see-new-version
\* the displayed title is conflictTitle; and from the state in which either
\* conflict test is about to save, the clicks of the dismiss callback and
\* the clicks of the copy callback end with the same displayed title.
C4_CopyPathSameAsDismissPath ==
  /\ (InTest("edit title conflict copy")
        /\ \A i \in 1..Len(queue) : queue[i].cmd = "shouldContainText")
       => (Did("request", "updateStory") => app.detailTitle = conflictTitle)
  /\ (cur \in ConflictTests /\ phase = "test" /\ Did("request", "updateStory")
        /\ ~Did("click", "edit-title-save"))
       => LET d == AfterClicks(app, ThenCommands("onUpdateDismiss", newTitle, conflictTitle))
              c == AfterClicks(app, ThenCommands("onUpdateCopy", newTitle, conflictTitle))
          IN /\ d.detailTitle = c.detailTitle
             /\ c.detailTitle = conflictTitle

C4_Witness ==
  /\ InTest("edit title conflict copy")
  /\ Did("click", "copy-title") /\ Did("click", "see-new-version")
  /\ newTitle # conflictTitle /\ pre.title # conflictTitle
  /\ app.detailTitle = conflictTitle

\* C5: in 'edit title', once edit-title-save has been clicked, the story
\* detail title and the kanban card both show newTitle, which is also the
\* persisted title.
C5_SavedTitleInBothViews ==
  (InTest("edit title") /\ Did("click", "edit-title-save"))
    => /\ app.detailTitle = newTitle
       /\ app.cardTitle = newTitle
       /\ app.title = newTitle

C5_Witness ==
  /\ InTest("edit title") /\ Did("click", "edit-title-save")
  /\ Did("shouldContainText", "tg-kanban-story")
  /\ pre.title # newTitle

\* C6: throughout 'edit title cancel', and so after edit-title-cancel and
\* confirm-edit, the persisted and the displayed title are the ones the
\* test started with.
C6_CancelKeepsTitle ==
  InTest("edit title cancel")
    => /\ app.title = pre.title
       /\ app.detailTitle = pre.detailTitle

C6_Witness ==
  /\ InTest("edit title cancel") /\ Did("click", "confirm-edit")
  /\ Did("type", "edit-title-textarea")
  /\ newTitle # pre.title

\* C7: 'delete story' starts with exactly one card in 'ready', and after
\* delete and confirm 'ready' holds no card and the story is in no column.
C7_DeleteEmptiesReady ==
  /\ (phase = "test" /\ cur = TestIndex("delete story")
        /\ ~Did("click", "confirm-delete-story"))
       => Cardinality(Cards(app, "ready")) = 1
  /\ (InTest("delete story") /\ Did("click", "confirm-delete-story"))
       => /\ Cardinality(Cards(app, "ready")) = 0
          /\ AllCards(app) = {}

C7_Witness ==
  /\ InTest("delete story") /\ Did("click", "confirm-delete-story")
  /\ Did("shouldHaveLength", "ready")
  /\ queue = <<>>
  /\ result[TestIndex("update status")] = "passed"

\* C8: in the conflict tests every executed click on edit-title-save comes
\* after the fulfilled updateStory request of the same test.
C8_UpdateBeforeSave ==
  (phase = "test" /\ cur \in ConflictTests)
    => \A i \in 1..Len(trace) :
         trace[i] = <<"click", "edit-title-save", "ok">>
           => \E j \in 1..(i - 1) : trace[j] = <<"request", "updateStory", "ok">>

C8_Witness ==
  /\ phase = "test" /\ cur \in ConflictTests
  /\ Did("click", "edit-title-save")
  /\ Did("request", "updateStory")
  /\ newTitle # conflictTitle

\* C9 as stated: a test passes only after an assertion of it has passed,
\* and console.error only ever receives failures of the suite-level setup.
C9_OnlySetupFailuresAreSwallowed ==
  /\ \A n \in 1..NumTests : result[n] = "passed" => n \in asserted
  /\ \A e \in log : e[1] = 0

\* C9 amended: a test passes after an assertion of it has passed, except a
\* conflict test whose updateStory request was rejected, which has logged
\* 'updateStoryRequest error'; console.error receives nothing else than
\* that and the rejection of the setup.
C9_RejectedUpdateIsSwallowed ==
  /\ \A n \in 1..NumTests :
       result[n] = "passed"
         => \/ n \in asserted
            \/ n \in ConflictTests /\ <<n, "updateStoryRequest error">> \in log
  /\ \A e \in log :
       \/ e[1] = 0
       \/ e[1] \in ConflictTests /\ e[2] = "updateStoryRequest error"

C9_Witness ==
  \E n \in ConflictTests :
    /\ result[n] = "passed"
    /\ n \notin asserted
    /\ <<n, "updateStoryRequest error">> \in log

TypeOK ==
  /\ cur \in 0..NumTests
  /\ phase \in {"before", "beforeEach", "test", "done"}
  /\ project \in {Null, ProjectId}
  /\ story \in {Null, StoryRef}
====
